---- MODULE Spec2Model ----
(***************************************************************************)
(* Model of the Nova Sonic voice session engine of ai-doc-chat:            *)
(*   lib/voice/session.ts  NovaSession (queues, generator, stop)           *)
(*   lib/voice/server.ts   handleVoiceConnection (message/close handlers)  *)
(*   lib/voice/client.ts   NovaClient.processResponses (inbound filtering) *)
(* JavaScript runs each handler to its next await/yield without            *)
(* interleaving, so one action is one such run-to-suspension slice.        *)
(* And of the ingestion worker (workers/ingestion-worker.ts) with the      *)
(* queue and the document table it works on.                               *)
(***************************************************************************)
EXTENDS Integers, Sequences, FiniteSets, TLC

\* ---------------------------------------------------------------- bounds
MaxAudio == 2       \* audio frames accepted by addAudioChunk
MaxTool == 1        \* toolUse frames of the response stream
MaxStopMsgs == 1    \* explicit {type:'stop'} messages the client sends
MaxFrames == 3      \* inbound frames read by processResponses
MaxBadMsgs == 1     \* client messages that make the message handler throw
MaxReceives == 2    \* deliveries of one queue message to the worker

MAX_RETRIES == 3    \* ingestion-worker.ts: `const MAX_RETRIES = 3`
Msgs == {"d1", "d2"}               \* queue messages, one per document
MsgKinds == {"valid", "invalid"}   \* the body parses to a message, or not

AudioFrames == {"A", "B"}          \* base64 payloads of audio messages
ToolUseIds == {"t1", "t2"}         \* toolUseId of a tool result
ToolNames == {"query_documents", "other_tool"}
ToolInputs == {"query", "noQuery"} \* input.query is a string, or is not
\* What client.send() of the lookup does: results, no result, a rejection,
\* or no answer at all (no timeout is configured for it).
LookupOutcomes == {"results", "empty", "throws", "hangs"}

VARIABLES
    \* NovaSession fields (session.ts 30-37)
    audioQueue, toolResultQueue, isActive, sessionReady, audioContentStarted,
    \* generateEventStream: position, handshake events already yielded,
    \* and the outbound sequence handed to the consumer so far
    genPc, hsSent, yielded,
    \* stop() invocations suspended in their 100 ms grace wait
    stopWaiting,
    \* handleVoiceConnection: the `session` variable is non-null, the socket
    \* is open, explicit stop messages received
    sessionRef, wsOpen, stopMsgs,
    \* history: frames accepted by addAudioChunk, stop() calls, teardown
    \* triples pushed, next event identity, events pushed before the first
    \* stop() together with the teardown events, and for each tool result
    \* pushed while active the audio-queue entries present at that moment
    accepted, stopCalls, teardownCount, nextId, owed, priorityPairs,
    \* NovaClient (client.ts 119); processResponses: position of the read
    \* loop, callbacks invoked, the latest ContentStart frame, the frame
    \* read last, number of frames read, frames skipped by the inner catch
    \* because they did not decode or parse
    currentGenerationStage, clientPc, calls, lastContentStart, lastFrame,
    frames, parseErrors,
    \* the knowledge lookup awaited by handleToolUse (at most one, the read
    \* loop awaits onToolUse), transport faults of the duplex call,
    \* {type:'error'} messages sent to the client, onToolUse calls that threw
    lookup, faults, errorsSent, toolThrows,
    \* handleVoiceConnection and startStream: the audio messages handled so
    \* far with what addAudioChunk did with each, the types of the messages
    \* sent to the client, whether the stop() in its grace wait is awaited by
    \* the stop-message handler, whether startStream has returned
    received, wsSent, ackPending, startReturned,
    \* a second `start` message on the connection: whether the handler's
    \* `session` variable now holds a second NovaSession, and the calls the
    \* handler has made on that session (its own stream is not modelled);
    \* the types of the messages passed to ws.send() after the close
    second, sendsAfterClose,
    \* the ingestion queue: each message is unsent, visible, inflight or
    \* deleted, has a kind and a number of deliveries; the document table:
    \* the status of the document of each message
    msgState, msgKind, receives, docStatus,
    \* startWorker: position, the message being handled, the await of
    \* processIngestionMessage it is at; withRetry: attempt index, calls of
    \* the wrapped function, failed calls, the error caught last (the index
    \* of the attempt that threw it), how the call ended and what it threw
    workerPc, current, step, attempt, invocations, failedAttempts,
    lastError, retryResult, thrown

sessionVars == <<audioQueue, toolResultQueue, isActive, sessionReady,
                 audioContentStarted, genPc, hsSent, yielded, stopWaiting,
                 sessionRef, wsOpen, stopMsgs, accepted, stopCalls,
                 teardownCount, nextId, owed, priorityPairs>>
clientVars == <<currentGenerationStage, clientPc, calls, lastContentStart,
                lastFrame, frames, parseErrors>>
toolVars == <<lookup, faults, errorsSent, toolThrows>>
handlerVars == <<received, wsSent, ackPending, startReturned, second,
                 sendsAfterClose>>
voiceVars == <<sessionVars, clientVars, toolVars, handlerVars>>
workerVars == <<msgState, msgKind, receives, docStatus, workerPc, current,
                step, attempt, invocations, failedAttempts, lastError,
                retryResult, thrown>>
vars == <<voiceVars, workerVars>>

\* ------------------------------------------------------- outbound events
Ev(t, c, i) == [type |-> t, content |-> c, id |-> i]

\* Variant: the audio contentStart is left out of the initial events.
HandshakeWithoutAudioStart ==
    << Ev("sessionStart", "", 0),
       Ev("promptStart", "", 0),
       Ev("contentStart", "system", 0),
       Ev("textInput", "system", 0),
       Ev("contentEnd", "system", 0) >>

\* Variant: promptStart is yielded before sessionStart.
HandshakePromptFirst ==
    << Ev("promptStart", "", 0),
       Ev("sessionStart", "", 0),
       Ev("contentStart", "system", 0),
       Ev("textInput", "system", 0),
       Ev("contentEnd", "system", 0),
       Ev("contentStart", "audio", 0) >>

\* Variant: the audio contentStart is yielded twice.
HandshakeTwoAudioStarts ==
    << Ev("sessionStart", "", 0),
       Ev("promptStart", "", 0),
       Ev("contentStart", "system", 0),
       Ev("textInput", "system", 0),
       Ev("contentEnd", "system", 0),
       Ev("contentStart", "audio", 0),
       Ev("contentStart", "audio", 0) >>

\* The six events generateEventStream yields before entering its loop.
HandshakeEvents ==
    << Ev("sessionStart", "", 0),
       Ev("promptStart", "", 0),
       Ev("contentStart", "system", 0),
       Ev("textInput", "system", 0),
       Ev("contentEnd", "system", 0),
       Ev("contentStart", "audio", 0) >>

AudioContentStart == Ev("contentStart", "audio", 0)

\* Variant: promptEnd is pushed before the audio contentEnd.
TeardownPromptEndFirst(i) ==
    << Ev("promptEnd", "", i),
       Ev("contentEnd", "audio", i + 1),
       Ev("sessionEnd", "", i + 2) >>

\* The three events stop() pushes, with identities i, i+1, i+2.
TeardownEvents(i) ==
    << Ev("contentEnd", "audio", i),
       Ev("promptEnd", "", i + 1),
       Ev("sessionEnd", "", i + 2) >>

\* Variant: the audio queue is popped from its end.
NextFromQueuesLifo(tq, aq) ==
    IF Len(tq) > 0
        THEN [ev |-> <<Head(tq)>>, tq |-> Tail(tq), aq |-> aq]
    ELSE IF Len(aq) > 0
        THEN [ev |-> <<aq[Len(aq)]>>, tq |-> tq,
              aq |-> SubSeq(aq, 1, Len(aq) - 1)]
    ELSE [ev |-> <<>>, tq |-> tq, aq |-> aq]

\* Variant: the audio queue is served before the tool results.
NextFromQueuesAudioFirst(tq, aq) ==
    IF Len(aq) > 0
        THEN [ev |-> <<Head(aq)>>, tq |-> tq, aq |-> Tail(aq)]
    ELSE IF Len(tq) > 0
        THEN [ev |-> <<Head(tq)>>, tq |-> Tail(tq), aq |-> aq]
    ELSE [ev |-> <<>>, tq |-> tq, aq |-> aq]

\* Variant: a tool result is shifted out of its queue without being yielded.
NextFromQueuesLosesTool(tq, aq) ==
    IF Len(tq) > 0
        THEN [ev |-> <<>>, tq |-> Tail(tq), aq |-> aq]
    ELSE IF Len(aq) > 0
        THEN [ev |-> <<Head(aq)>>, tq |-> tq, aq |-> Tail(aq)]
    ELSE [ev |-> <<>>, tq |-> tq, aq |-> aq]

\* Variant: the audio queue is served only once a tool result has passed.
NextFromQueuesToolOnly(tq, aq) ==
    IF Len(tq) > 0
        THEN [ev |-> <<Head(tq)>>, tq |-> Tail(tq), aq |-> aq]
    ELSE [ev |-> <<>>, tq |-> tq, aq |-> aq]

\* One pass of the loop body: tool results first, then the audio queue.
NextFromQueues(tq, aq) ==
    IF Len(tq) > 0
        THEN [ev |-> <<Head(tq)>>, tq |-> Tail(tq), aq |-> aq]
    ELSE IF Len(aq) > 0
        THEN [ev |-> <<Head(aq)>>, tq |-> tq, aq |-> Tail(aq)]
    ELSE [ev |-> <<>>, tq |-> tq, aq |-> aq]

\* Variant: stop() without its already-stopped test.
StopNeverReturnsEarly(active) == FALSE

\* `if (!this.isActive) return` at the top of stop().
StopReturnsEarly(active) == ~active

\* Variant: the stop-message handler forgets the session.
SessionClearedAfterStop(ref) == FALSE

\* server.ts 94-97: the stop-message handler leaves `session` as it is.
SessionAfterStop(ref) == ref

\* Variant: addAudioChunk() without its readiness test.
AudioNeverDropped(ready) == FALSE

\* `if (!this.sessionReady) return` at the top of addAudioChunk().
AudioDropped(ready) == ~ready

\* Variant: the session is ready from its construction.
SessionReadyFromConstruction == TRUE

\* session.ts 33: `public sessionReady: boolean = false`.
SessionReadyAtConstruction == FALSE

\* Variant: the callback's name is sent as the message type.
MessageOfCallback(callback) == callback

\* server.ts 32-69: the type of the message each callback sends.
MessageOf(callback) ==
    CASE callback = "onAudioChunk" -> "audio"
      [] callback = "onText" -> "text"
      [] callback = "onContentEnd" -> "contentEnd"

\* server.ts 33, 42, 63, 96: what a ws.send() adds to the messages sent; a
\* send on a socket that is no longer open delivers nothing.
WsSend(sent, open, type) == IF open THEN sent \cup {type} ELSE sent

\* The same ws.send() calls, none of which tests ws.readyState: the types
\* passed to a socket that has closed.
WsSendClosed(late, open, type) == IF open THEN late ELSE late \cup {type}


\* -------------------------------------------------------- inbound frames
\* One decoded response frame; the wire protocol puts one event key in a
\* frame.  `fields` is contentStart.additionalModelFields: absent, a JSON
\* text that does not parse, a JSON object without generationStage, or one
\* whose generationStage is the given tag.  `role` of a textOutput may be
\* absent.  A toolUse carries its toolName in `type`, the kind of its input
\* in `fields` and its toolUseId in `content`.
Fr(k, t, r, f, c) == [key |-> k, type |-> t, role |-> r, fields |-> f,
                      content |-> c]
NoFrame == Fr("none", "", "", "", "")
ContentStartFrames ==
    { Fr("contentStart", t, r, f, "") :
        t \in {"TEXT", "AUDIO"}, r \in {"USER", "ASSISTANT"},
        f \in {"absent", "unparseable", "noStage", "FINAL", "SPECULATIVE"} }
TextOutputFrames ==
    { Fr("textOutput", "", r, "", c) :
        r \in {"absent", "USER", "ASSISTANT"}, c \in {"hi", "answer"} }
ToolUseFrames ==
    { Fr("toolUse", n, "", i, t) :
        n \in ToolNames, i \in ToolInputs, t \in ToolUseIds }
OtherFrames ==
    { Fr(k, "", "", "", "") :
        k \in {"audioOutput", "contentEnd", "completionEnd", "malformed"} }
Frames ==
    ContentStartFrames \cup TextOutputFrames \cup ToolUseFrames
        \cup OtherFrames

\* Variant: the stage is taken from the fields without a default.
StageOfRaw(fields) == fields

\* client.ts 225-233: the stage a contentStart records.
StageOf(fields) ==
    IF fields \in {"absent", "unparseable", "noStage"} THEN "FINAL" ELSE fields

\* Variant: a frame that does not parse ends the loop as well.
LoopEndsOnMalformed(key) == key \in {"completionEnd", "malformed"}

\* Variant: completionEnd does not end the loop.
LoopNeverEnds(key) == FALSE

\* client.ts 299-302: `break` on completionEnd, and on nothing else.
LoopEndsOn(key) == key = "completionEnd"

\* client.ts 248: `textOutput.role || 'ASSISTANT'`.
TextRole(role) == IF role = "absent" THEN "ASSISTANT" ELSE role

\* client.ts 258: the condition under which onText is called.
TextForwarded(role, stage) == role = "ASSISTANT" /\ stage = "FINAL"

\* ----------------------------------------------------------- tool calls
\* session.ts 290-292: the query handed to the lookup.
QueryOf(input) == IF input = "query" THEN "text" ELSE ""

\* Variant: an error result for a lookup that found nothing.
HandleToolUseEmptyIsError(toolUseId, toolName, outcome) ==
    IF toolName = "query_documents" /\ outcome = "results"
        THEN [toolUseId |-> toolUseId, text |-> "excerpts",
              status |-> "absent"]
        ELSE [toolUseId |-> toolUseId, text |-> "error", status |-> "error"]

\* Variant: a successful result carries `status: undefined` instead of no
\* status property.
HandleToolUseUndefinedStatus(toolUseId, toolName, outcome) ==
    IF toolName = "query_documents"
        THEN IF outcome = "throws"
                THEN [toolUseId |-> toolUseId,
                      text |-> "Error searching documents. Please try again.",
                      status |-> "error"]
                ELSE [toolUseId |-> toolUseId,
                      text |-> IF outcome = "results" THEN "excerpts"
                               ELSE "No relevant information found in documents.",
                      status |-> "undefined"]
        ELSE [toolUseId |-> toolUseId, text |-> "Tool not found",
              status |-> "error"]

\* session.ts 286-343: what handleToolUse returns, given what the lookup did.
HandleToolUse(toolUseId, toolName, outcome) ==
    IF toolName = "query_documents"
        THEN IF outcome = "throws"
                THEN [toolUseId |-> toolUseId,
                      text |-> "Error searching documents. Please try again.",
                      status |-> "error"]
                ELSE [toolUseId |-> toolUseId,
                      text |-> IF outcome = "results" THEN "excerpts"
                               ELSE "No relevant information found in documents.",
                      status |-> "absent"]
        ELSE [toolUseId |-> toolUseId, text |-> "Tool not found",
              status |-> "error"]

\* The outbound event of a tool result: `{ event: toolResult }`.
ToolEv(r, i) == [type |-> "toolResult", content |-> r.toolUseId, id |-> i,
                 text |-> r.text, status |-> r.status]

\* ------------------------------------------------------- wire envelope
\* In an event record the value "absent" stands for a property the object
\* does not have, "undefined" for a property whose value is undefined; `id`
\* is the identity of the payload, a number.
\* session.ts 63, 111, 210, 227: `textEncoder.encode(JSON.stringify(x))` of
\* `{ event: { <name>: {...} } }`.  JSON.stringify writes the properties the
\* object has and leaves out those whose value is undefined.
Encode(e) ==
    [names |-> {e.type},
     body |-> [k \in {f \in DOMAIN e \ {"type"} :
                          f = "id" \/ e[f] \notin {"absent", "undefined"}}
                 |-> e[k]]]

\* The properties of an event that may be missing on the wire.
OptionalKeys(name) == IF name = "toolResult" THEN {"status"} ELSE {}

\* client.ts 213-214: `JSON.parse(textDecoder.decode(bytes))`, read back as
\* an event record.
Decode(w) ==
    LET name == CHOOSE n \in w.names : TRUE
        keys == DOMAIN w.body \cup OptionalKeys(name) \cup {"type"}
    IN [k \in keys |->
           IF k = "type" THEN name
           ELSE IF k \in DOMAIN w.body THEN w.body[k]
           ELSE "absent"]

Init ==
    /\ audioQueue = <<>>
    /\ toolResultQueue = <<>>
    /\ isActive = FALSE
    /\ sessionReady = SessionReadyAtConstruction
    /\ audioContentStarted = FALSE
    /\ genPc = "start"
    /\ hsSent = 0
    /\ yielded = <<>>
    /\ stopWaiting = 0
    /\ sessionRef = TRUE
    /\ wsOpen = TRUE
    /\ stopMsgs = 0
    /\ accepted = <<>>
    /\ stopCalls = 0
    /\ teardownCount = 0
    /\ nextId = 1
    /\ owed = {}
    /\ priorityPairs = {}
    /\ currentGenerationStage = "FINAL"
    /\ clientPc = "reading"
    /\ calls = <<>>
    /\ lastContentStart = NoFrame
    /\ lastFrame = NoFrame
    /\ frames = 0
    /\ parseErrors = 0
    /\ lookup = <<>>
    /\ faults = 0
    /\ errorsSent = 0
    /\ toolThrows = 0
    /\ received = <<>>
    /\ wsSent = {"ready"}
    /\ ackPending = FALSE
    /\ startReturned = FALSE
    /\ second = [live |-> FALSE, toolResults |-> <<>>, stopCalls |-> 0]
    /\ sendsAfterClose = {}
    /\ msgState = [m \in Msgs |-> "unsent"]
    /\ msgKind = [m \in Msgs |-> "valid"]
    /\ receives = [m \in Msgs |-> 0]
    /\ docStatus = [m \in Msgs |-> "uploading"]
    /\ workerPc = "poll"
    /\ current = "d1"
    /\ step = 1
    /\ attempt = 0
    /\ invocations = 0
    /\ failedAttempts = 0
    /\ lastError = -1
    /\ retryResult = "none"
    /\ thrown = -1

\* ------------------------------------------------- generateEventStream
\* The loop from its `while (this.isActive)` test to the next suspension:
\* a yield, the 1 ms timer, or the end of the generator.
LoopFrom(active) ==
    IF ~active
        THEN /\ genPc' = "done"
             /\ UNCHANGED <<yielded, toolResultQueue, audioQueue>>
    ELSE LET n == NextFromQueues(toolResultQueue, audioQueue) IN
         /\ toolResultQueue' = n.tq
         /\ audioQueue' = n.aq
         /\ yielded' = yielded \o n.ev
         /\ genPc' = IF n.ev = <<>> THEN "sleep" ELSE "yield"

\* The consumer pulls the next event: the generator runs from where it is
\* suspended to its next yield.
GenPull ==
    /\ genPc \in {"start", "handshake", "yield"}
    /\ \/ /\ genPc \in {"start", "handshake"}
          /\ hsSent < Len(HandshakeEvents)
          /\ yielded' = Append(yielded, HandshakeEvents[hsSent + 1])
          /\ hsSent' = hsSent + 1
          /\ genPc' = "handshake"
          /\ UNCHANGED <<audioQueue, toolResultQueue, isActive, sessionReady,
                         audioContentStarted>>
       \/ /\ genPc = "handshake"
          /\ hsSent = Len(HandshakeEvents)
          /\ audioContentStarted' = TRUE
          /\ isActive' = TRUE
          /\ sessionReady' = TRUE
          /\ LoopFrom(TRUE)
          /\ UNCHANGED hsSent
       \/ /\ genPc = "yield"
          /\ LoopFrom(isActive)
          /\ UNCHANGED <<hsSent, isActive, sessionReady, audioContentStarted>>
    /\ UNCHANGED <<stopWaiting, sessionRef, wsOpen, stopMsgs, accepted,
                   stopCalls, teardownCount, nextId, owed, priorityPairs>>
    /\ UNCHANGED <<clientVars, toolVars, handlerVars, workerVars>>

\* The 1 ms timer of the empty-queue branch fires.
GenWake ==
    /\ genPc = "sleep"
    /\ LoopFrom(isActive)
    /\ UNCHANGED <<hsSent, isActive, sessionReady, audioContentStarted>>
    /\ UNCHANGED <<stopWaiting, sessionRef, wsOpen, stopMsgs, accepted,
                   stopCalls, teardownCount, nextId, owed, priorityPairs>>
    /\ UNCHANGED <<clientVars, toolVars, handlerVars, workerVars>>

\* ------------------------------------------------------- queue writers
\* server.ts 85-91 with session.ts 255-274: an audio message arrives.
AddAudioChunk(base64Audio) ==
    /\ wsOpen /\ sessionRef
    /\ ~second.live
    /\ Len(received) < MaxAudio
    /\ received' = Append(received,
                          [content |-> base64Audio,
                           queued |-> ~AudioDropped(sessionReady)])
    /\ IF AudioDropped(sessionReady)
          THEN UNCHANGED <<audioQueue, accepted, nextId, owed>>
          ELSE /\ audioQueue' = Append(audioQueue,
                                       Ev("audioInput", base64Audio, nextId))
               /\ accepted' = Append(accepted, base64Audio)
               /\ nextId' = nextId + 1
               /\ owed' = IF stopCalls = 0 THEN owed \cup {nextId} ELSE owed
    /\ UNCHANGED <<toolResultQueue, isActive, sessionReady,
                   audioContentStarted, genPc, hsSent, yielded, stopWaiting,
                   sessionRef, wsOpen, stopMsgs, stopCalls, teardownCount,
                   priorityPairs>>
    /\ UNCHANGED <<clientVars, toolVars, wsSent, ackPending, startReturned,
                   second, sendsAfterClose, workerVars>>

\* session.ts 279-281: addToolResult pushes, whatever the session's state.
AddToolResult(toolResult) ==
    /\ toolResultQueue' = Append(toolResultQueue, ToolEv(toolResult, nextId))
    /\ nextId' = nextId + 1
    /\ owed' = IF stopCalls = 0 THEN owed \cup {nextId} ELSE owed
    /\ priorityPairs' =
          IF isActive
             THEN priorityPairs \cup
                  {<<nextId, audioQueue[i].id>> : i \in 1..Len(audioQueue)}
             ELSE priorityPairs

\* ---------------------------------------------------------------- stop()
\* session.ts 350-390: stop() from its entry to the grace-period await.
StopEnter ==
    /\ stopCalls' = stopCalls + 1
    /\ IF StopReturnsEarly(isActive)
          THEN UNCHANGED <<isActive, sessionReady, audioQueue, nextId,
                           teardownCount, stopWaiting, owed>>
          ELSE /\ isActive' = FALSE
               /\ sessionReady' = FALSE
               /\ audioQueue' = audioQueue \o TeardownEvents(nextId)
               /\ nextId' = nextId + 3
               /\ teardownCount' = teardownCount + 1
               /\ stopWaiting' = stopWaiting + 1
               /\ owed' = owed \cup {nextId, nextId + 1, nextId + 2}
    /\ UNCHANGED <<toolResultQueue, audioContentStarted, genPc, hsSent,
                   yielded, accepted, priorityPairs>>
    /\ UNCHANGED <<clientVars, toolVars, received, startReturned, second,
                   sendsAfterClose, workerVars>>

\* server.ts 94-97: a {type:'stop'} message while `session` is set.  When
\* stop() returns at once the handler resumes in the same turn and sends
\* {type:'stopped'}; otherwise it sends it when the grace wait is over.
StopMessage ==
    /\ wsOpen /\ sessionRef
    /\ ~second.live
    /\ stopMsgs < MaxStopMsgs
    /\ stopMsgs' = stopMsgs + 1
    /\ StopEnter
    /\ sessionRef' = SessionAfterStop(sessionRef)
    /\ IF StopReturnsEarly(isActive)
          THEN /\ wsSent' = WsSend(wsSent, wsOpen, "stopped")
               /\ UNCHANGED ackPending
          ELSE /\ ackPending' = TRUE
               /\ UNCHANGED wsSent
    /\ UNCHANGED wsOpen

\* server.ts 109-117: the socket closes.  stop() is called on the session
\* the `session` variable holds at that moment.
Close ==
    /\ wsOpen
    /\ wsOpen' = FALSE
    /\ IF sessionRef /\ ~second.live
          THEN /\ StopEnter
               /\ sessionRef' = FALSE
          ELSE /\ sessionRef' = FALSE
               /\ second' = IF sessionRef
                               THEN [second EXCEPT
                                        !.stopCalls = second.stopCalls + 1]
                               ELSE second
               /\ UNCHANGED <<audioQueue, toolResultQueue, isActive,
                              sessionReady, audioContentStarted, genPc,
                              hsSent, yielded, stopWaiting, accepted,
                              stopCalls, teardownCount, nextId, owed,
                              priorityPairs, clientVars, toolVars, received,
                              startReturned, sendsAfterClose, workerVars>>
    /\ UNCHANGED <<stopMsgs, wsSent, ackPending>>

\* server.ts 21-81: a further `start` message.  `session` and `client` are
\* reassigned without a stop() of the session they held, a new stream is
\* started and {type:'ready'} is sent.
StartAgain ==
    /\ wsOpen
    /\ ~second.live
    /\ second' = [second EXCEPT !.live = TRUE]
    /\ sessionRef' = TRUE
    /\ wsSent' = WsSend(wsSent, wsOpen, "ready")
    /\ UNCHANGED <<audioQueue, toolResultQueue, isActive, sessionReady,
                   audioContentStarted, genPc, hsSent, yielded, stopWaiting,
                   wsOpen, stopMsgs, accepted, stopCalls, teardownCount,
                   nextId, owed, priorityPairs>>
    /\ UNCHANGED <<clientVars, toolVars, received, ackPending, startReturned,
                   sendsAfterClose, workerVars>>

\* session.ts 393-397: the 100 ms grace period of one stop() call is over;
\* server.ts 96: the stop-message handler awaiting it sends {type:'stopped'}.
StopFinish ==
    /\ stopWaiting > 0
    /\ stopWaiting' = stopWaiting - 1
    /\ audioQueue' = <<>>
    /\ toolResultQueue' = <<>>
    /\ ackPending' = FALSE
    /\ wsSent' = IF ackPending THEN WsSend(wsSent, wsOpen, "stopped")
                  ELSE wsSent
    /\ sendsAfterClose' =
          IF ackPending THEN WsSendClosed(sendsAfterClose, wsOpen, "stopped")
          ELSE sendsAfterClose
    /\ UNCHANGED <<isActive, sessionReady, audioContentStarted, genPc, hsSent,
                   yielded, sessionRef, wsOpen, stopMsgs, accepted, stopCalls,
                   teardownCount, nextId, owed, priorityPairs>>
    /\ UNCHANGED <<clientVars, toolVars, received, startReturned, second,
                   workerVars>>

\* server.ts 16-18, 98-105: a client message that makes the handler throw
\* (JSON.parse fails, or an audio message without its `audio` field).
BadMessage ==
    /\ wsOpen
    /\ errorsSent < MaxBadMsgs
    /\ errorsSent' = errorsSent + 1
    /\ wsSent' = WsSend(wsSent, wsOpen, "error")
    /\ UNCHANGED <<sessionVars, clientVars, lookup, faults, toolThrows,
                   received, ackPending, startReturned, second,
                   sendsAfterClose, workerVars>>

\* ---------------------------------------------------- processResponses
ToolUseCount == Len(SelectSeq(calls, LAMBDA c : c[1] = "onToolUse"))

\* server.ts 58: `session!.addToolResult(toolResult)`.  `session` is the
\* handler's variable, read when the call is made: the result goes to the
\* session started last on the connection.
SessionAddToolResult(toolResult) ==
    IF second.live
       THEN /\ second' = [second EXCEPT
                             !.toolResults = Append(second.toolResults,
                                                    toolResult)]
            /\ UNCHANGED <<toolResultQueue, nextId, owed, priorityPairs>>
       ELSE /\ AddToolResult(toolResult)
            /\ UNCHANGED second

\* server.ts 50-59: the onToolUse callback up to its first suspension.  It
\* dereferences the handler's `session` variable (null after a close: the
\* TypeError is caught at client.ts 304 and the loop goes on); an unknown
\* tool is answered without a lookup.
OnToolUse(f, outcome) ==
    IF ~sessionRef
        THEN /\ toolThrows' = toolThrows + 1
             /\ clientPc' = "reading"
             /\ UNCHANGED <<toolResultQueue, nextId, owed, priorityPairs,
                            lookup, second>>
    ELSE IF f.type # "query_documents"
        THEN /\ SessionAddToolResult(
                    HandleToolUse(f.content, f.type, outcome))
             /\ clientPc' = "reading"
             /\ UNCHANGED <<lookup, toolThrows>>
    ELSE /\ lookup' = <<[query |-> QueryOf(f.fields), outcome |-> outcome,
                         startedAt |-> nextId]>>
         /\ clientPc' = "awaitTool"
         /\ UNCHANGED <<toolResultQueue, nextId, owed, priorityPairs,
                        toolThrows, second>>

\* client.ts 205-308: one iteration of the read loop on frame f.
ProcessFrame(f) ==
    /\ clientPc = "reading"
    /\ frames < MaxFrames
    /\ f.key = "toolUse" => ToolUseCount < MaxTool
    /\ frames' = frames + 1
    /\ parseErrors' = IF f.key = "malformed" THEN parseErrors + 1
                       ELSE parseErrors
    /\ lastFrame' = f
    /\ currentGenerationStage' =
          IF f.key = "contentStart" THEN StageOf(f.fields)
          ELSE currentGenerationStage
    /\ lastContentStart' =
          IF f.key = "contentStart" THEN f ELSE lastContentStart
    /\ calls' =
          CASE f.key = "textOutput" ->
                 IF TextForwarded(TextRole(f.role), currentGenerationStage)
                    THEN Append(calls, <<"onText", f.content>>)
                    ELSE calls
            [] f.key = "audioOutput" -> Append(calls, <<"onAudioChunk", "">>)
            [] f.key = "toolUse" -> Append(calls, <<"onToolUse", f.content>>)
            [] f.key = "contentEnd" -> Append(calls, <<"onContentEnd", "">>)
            [] OTHER -> calls
    /\ wsSent' =
          IF calls' # calls /\ f.key # "toolUse"
             THEN WsSend(wsSent, wsOpen, MessageOf(calls'[Len(calls')][1]))
             ELSE wsSent
    /\ sendsAfterClose' =
          IF calls' # calls /\ f.key # "toolUse"
             THEN WsSendClosed(sendsAfterClose, wsOpen,
                               MessageOf(calls'[Len(calls')][1]))
             ELSE sendsAfterClose
    /\ UNCHANGED <<received, ackPending, startReturned, workerVars>>
    /\ IF f.key = "toolUse"
          THEN \E o \in (IF sessionRef /\ f.type = "query_documents"
                            THEN LookupOutcomes ELSE {"none"}) :
                  OnToolUse(f, o)
          ELSE /\ clientPc' = IF LoopEndsOn(f.key) THEN "done"
                              ELSE "reading"
               /\ UNCHANGED <<toolResultQueue, nextId, owed, priorityPairs,
                              lookup, toolThrows, second>>
    /\ UNCHANGED <<audioQueue, isActive, sessionReady, audioContentStarted,
                   genPc, hsSent, yielded, stopWaiting, sessionRef, wsOpen,
                   stopMsgs, accepted, stopCalls, teardownCount, faults,
                   errorsSent>>

\* session.ts 296-333, server.ts 57-58, client.ts 286: the lookup settles,
\* handleToolUse returns, onToolUse hands the result to addToolResult and the
\* read loop resumes.  The loop was suspended on the toolUse frame, so
\* lastFrame still is the frame whose id and name the call was made with.
ToolUseReturn ==
    /\ clientPc = "awaitTool"
    /\ lookup # <<>>
    /\ lookup[1].outcome # "hangs"
    /\ clientPc' = "reading"
    /\ lookup' = <<>>
    /\ IF sessionRef
          THEN /\ SessionAddToolResult(HandleToolUse(lastFrame.content,
                                                     lastFrame.type,
                                                     lookup[1].outcome))
               /\ UNCHANGED toolThrows
          ELSE /\ toolThrows' = toolThrows + 1
               /\ UNCHANGED <<toolResultQueue, nextId, owed, priorityPairs,
                              second>>
    /\ UNCHANGED <<audioQueue, isActive, sessionReady, audioContentStarted,
                   genPc, hsSent, yielded, stopWaiting, sessionRef, wsOpen,
                   stopMsgs, accepted, stopCalls, teardownCount, faults,
                   errorsSent>>
    /\ UNCHANGED <<currentGenerationStage, calls, lastContentStart, lastFrame,
                   frames, parseErrors>>
    /\ UNCHANGED <<received, wsSent, ackPending, startReturned,
                   sendsAfterClose, workerVars>>

\* client.ts 175-179 and 309-323: the send is rejected, the response stream
\* delivers an error event, or iterating it fails.  The error is logged; the
\* rethrow at 178 rejects a promise nobody awaits, the catch at 320 swallows.
TransportFault(kind) ==
    /\ clientPc = "reading"
    /\ kind = "sendRejected" => frames = 0
    /\ clientPc' = "done"
    /\ faults' = faults + 1
    /\ UNCHANGED <<sessionVars, currentGenerationStage, calls,
                   lastContentStart, lastFrame, frames, parseErrors, lookup,
                   errorsSent, toolThrows, handlerVars, workerVars>>

\* client.ts 181-184: the 500 ms timer of startStream fires and startStream
\* returns; nothing orders the timer with the pulls of the generator.
StartStreamReturn ==
    /\ ~startReturned
    /\ startReturned' = TRUE
    /\ UNCHANGED <<sessionVars, clientVars, toolVars, received, wsSent,
                   ackPending, second, sendsAfterClose, workerVars>>

FaultKinds == {"sendRejected", "streamError", "iterationError"}

\* The session engine with its connection handler; of the response stream,
\* its faults and the frames that reach the session: well-formed calls of
\* the document tool, which the model makes once it has been given the
\* whole handshake.
SessionFrames ==
    {f \in ToolUseFrames : f.type = "query_documents" /\ f.fields = "query"}

Next ==
    \/ GenPull
    \/ GenWake
    \/ \E a \in AudioFrames : AddAudioChunk(a)
    \/ audioContentStarted /\ \E f \in SessionFrames : ProcessFrame(f)
    \/ ToolUseReturn
    \/ \E k \in FaultKinds : TransportFault(k)
    \/ StopMessage
    \/ Close
    \/ StopFinish

Spec == Init /\ [][Next]_vars

\* The start of a connection: startStream suspended in its 500 ms wait while
\* the consumer pulls the generator and client messages arrive.
StartNext ==
    \/ GenPull
    \/ GenWake
    \/ \E a \in AudioFrames : AddAudioChunk(a)
    \/ StartStreamReturn
    \/ StopMessage
    \/ Close
    \/ StopFinish

StartSpec == Init /\ [][StartNext]_vars

\* A session that is never stopped: the generator, the audio messages and
\* the tool calls of the response stream.
DrainNext ==
    \/ GenPull
    \/ GenWake
    \/ \E a \in AudioFrames : AddAudioChunk(a)
    \/ audioContentStarted /\ \E f \in SessionFrames : ProcessFrame(f)
    \/ ToolUseReturn

DrainSpec == Init /\ [][DrainNext]_vars

\* The consumer keeps pulling and the 1 ms timer fires.
FairDrainSpec == DrainSpec /\ WF_vars(GenPull) /\ WF_vars(GenWake)

\* A connection that receives a second `start` message while the stream of
\* its first session is running.
RestartNext ==
    \/ GenPull
    \/ GenWake
    \/ audioContentStarted /\ \E f \in SessionFrames : ProcessFrame(f)
    \/ ToolUseReturn
    \/ StartAgain
    \/ StopMessage
    \/ Close
    \/ StopFinish

RestartSpec == Init /\ [][RestartNext]_vars

\* The response loop with the callbacks of the connection handler, and the
\* handler's own replies: to a message it cannot handle, and to a stop
\* message (which here finds the session still in its handshake).
ClientNext ==
    \/ \E f \in Frames : ProcessFrame(f)
    \/ ToolUseReturn
    \/ \E k \in FaultKinds : TransportFault(k)
    \/ BadMessage
    \/ StopMessage

ClientSpec == Init /\ [][ClientNext]_vars

\* A fair scheduler: the consumer keeps pulling the generator, and the
\* timers of the generator (1 ms) and of stop() (100 ms) fire; a lookup
\* that is going to settle does settle.
FairSpec ==
    Spec /\ WF_vars(GenPull) /\ WF_vars(GenWake) /\ WF_vars(StopFinish)
         /\ WF_vars(ToolUseReturn)

\* ----------------------------------------------------- ingestion worker
\* Variant: one more attempt than `retries` allows.
RetryAllowedInclusive(a, retries) == a <= retries

\* ingestion-worker.ts 98: `if (attempt < retries)`, and the loop bound
\* `attempt <= retries` of line 92: another attempt follows a failed one.
RetryAllowed(a, retries) == a < retries

\* Variant: the message is deleted whatever withRetry did.
DeletedAlways(result) == TRUE

\* ingestion-worker.ts 167-181: the delete of line 173 is reached only when
\* `await withRetry(...)` returned.
DeletedAfter(result) == result = "returned"

\* The status processIngestionMessage writes when await k has succeeded
\* (lines 44, 53, 66); the other awaits write none.
StatusAfterStep(k, status) ==
    CASE k = 1 -> "parsing"
      [] k = 3 -> "parsed"
      [] k = 6 -> "ingesting"
      [] OTHER -> status

\* sqs-service.ts 33-56: a message is put on the queue for a document that
\* has been uploaded.
EnqueueMessage(m, kind) ==
    /\ msgState[m] = "unsent"
    /\ msgState' = [msgState EXCEPT ![m] = "visible"]
    /\ msgKind' = [msgKind EXCEPT ![m] = kind]
    /\ UNCHANGED <<receives, docStatus, workerPc, current, step, attempt,
                   invocations, failedAttempts, lastError, retryResult,
                   thrown>>
    /\ UNCHANGED voiceVars

\* ingestion-worker.ts 140-169: the poll returns message m (maxMessages is
\* 1).  A body that does not parse leads to the delete of line 162, any
\* other to withRetry and the first call of processIngestionMessage, which
\* runs to its first await.
Receive(m) ==
    /\ workerPc = "poll"
    /\ msgState[m] = "visible"
    /\ receives[m] < MaxReceives
    /\ msgState' = [msgState EXCEPT ![m] = "inflight"]
    /\ receives' = [receives EXCEPT ![m] = receives[m] + 1]
    /\ current' = m
    /\ IF msgKind[m] = "invalid"
          THEN /\ workerPc' = "deleteInvalid"
               /\ UNCHANGED <<step, attempt, invocations, failedAttempts,
                              lastError, retryResult, thrown>>
          ELSE /\ workerPc' = "step"
               /\ step' = 1
               /\ attempt' = 0
               /\ invocations' = 1
               /\ failedAttempts' = 0
               /\ lastError' = -1
               /\ retryResult' = "none"
               /\ thrown' = -1
    /\ UNCHANGED <<msgKind, docStatus>>
    /\ UNCHANGED voiceVars

\* ingestion-worker.ts 42-69: the await the function is suspended at
\* settles.  When it resolves the function goes on to the next await, or,
\* after the sixth, returns, and withRetry returns with it (line 94); when
\* it rejects the function enters its catch and awaits the write of
\* `failed` (line 76).
ProcessStep(ok) ==
    /\ workerPc = "step"
    /\ IF ok
          THEN /\ docStatus' = [docStatus EXCEPT ![current] =
                                   StatusAfterStep(step, docStatus[current])]
               /\ IF step < 6
                     THEN /\ step' = step + 1
                          /\ UNCHANGED <<workerPc, retryResult>>
                     ELSE /\ retryResult' = "returned"
                          /\ workerPc' =
                                IF DeletedAfter("returned") THEN "delete"
                                ELSE "poll"
                          /\ UNCHANGED step
          ELSE /\ workerPc' = "catch"
               /\ UNCHANGED <<docStatus, step, retryResult>>
    /\ UNCHANGED <<msgState, msgKind, receives, current, attempt,
                   invocations, failedAttempts, lastError, thrown>>
    /\ UNCHANGED voiceVars

\* ingestion-worker.ts 71-80 and 95-106: the write of `failed` settles and
\* the call throws (its own error, or that of the write); withRetry records
\* the error and either sleeps before the next attempt or throws it.  The
\* catch of line 177 then leaves the message on the queue, unless the
\* worker deletes it all the same.
CatchFailure(written) ==
    /\ workerPc = "catch"
    /\ docStatus' = IF written THEN [docStatus EXCEPT ![current] = "failed"]
                    ELSE docStatus
    /\ lastError' = attempt
    /\ failedAttempts' = failedAttempts + 1
    /\ IF RetryAllowed(attempt, MAX_RETRIES)
          THEN /\ workerPc' = "retryWait"
               /\ UNCHANGED <<retryResult, thrown, msgState>>
          ELSE /\ retryResult' = "threw"
               /\ thrown' = lastError'
               /\ IF DeletedAfter("threw")
                     THEN /\ workerPc' = "delete"
                          /\ UNCHANGED msgState
                     ELSE /\ workerPc' = "poll"
                          /\ msgState' = [msgState EXCEPT
                                             ![current] = "visible"]
    /\ UNCHANGED <<msgKind, receives, current, step, attempt, invocations>>
    /\ UNCHANGED voiceVars

\* ingestion-worker.ts 99-101, 92-94: the backoff sleep is over and the
\* wrapped function is called again.
RetryWake ==
    /\ workerPc = "retryWait"
    /\ attempt' = attempt + 1
    /\ invocations' = invocations + 1
    /\ step' = 1
    /\ workerPc' = "step"
    /\ UNCHANGED <<msgState, msgKind, receives, docStatus, current,
                   failedAttempts, lastError, retryResult, thrown>>
    /\ UNCHANGED voiceVars

\* ingestion-worker.ts 162 and 173, sqs-service.ts 82-89: the delete
\* settles.  A rejected delete is caught (line 177, or line 189 for the
\* unparseable message) and the message becomes visible again.
DeleteMessage(ok) ==
    /\ workerPc \in {"delete", "deleteInvalid"}
    /\ msgState' = [msgState EXCEPT
                       ![current] = IF ok THEN "deleted" ELSE "visible"]
    /\ workerPc' = "poll"
    /\ UNCHANGED <<msgKind, receives, docStatus, current, step, attempt,
                   invocations, failedAttempts, lastError, retryResult,
                   thrown>>
    /\ UNCHANGED voiceVars

\* ingestion-status/route.ts 28-50: a status poll of a document that is
\* `ingesting` writes `ready` or `failed` when the job has ended.
IngestionStatusPoll(m, jobStatus) ==
    /\ docStatus[m] = "ingesting"
    /\ jobStatus \in {"COMPLETE", "FAILED"}
    /\ docStatus' = [docStatus EXCEPT
                        ![m] = IF jobStatus = "COMPLETE" THEN "ready"
                               ELSE "failed"]
    /\ UNCHANGED <<msgState, msgKind, receives, workerPc, current, step,
                   attempt, invocations, failedAttempts, lastError,
                   retryResult, thrown>>
    /\ UNCHANGED voiceVars

WorkerNext ==
    \/ \E m \in Msgs, k \in MsgKinds : EnqueueMessage(m, k)
    \/ \E m \in Msgs : Receive(m)
    \/ \E ok \in BOOLEAN : ProcessStep(ok)
    \/ \E written \in BOOLEAN : CatchFailure(written)
    \/ RetryWake
    \/ \E ok \in BOOLEAN : DeleteMessage(ok)
    \/ \E m \in Msgs, j \in {"COMPLETE", "FAILED"} : IngestionStatusPoll(m, j)

WorkerSpec == Init /\ [][WorkerNext]_vars

\* ------------------------------------------------------------ properties
IsPrefix(s, t) == Len(s) <= Len(t) /\ SubSeq(t, 1, Len(s)) = s
IsAudio(e) == e.type = "audioInput"
AudioContents(seq) ==
    LET a == SelectSeq(seq, IsAudio) IN [i \in 1..Len(a) |-> a[i].content]
Occurrences(seq, i) == Cardinality({j \in 1..Len(seq) : seq[j].id = i})
Stopped == ~isActive /\ teardownCount > 0 /\ stopWaiting = 0

\* C1: the outbound sequence ends only after stop() has been called and
\* after the ContentEnd, PromptEnd and SessionEnd queued by stop() have been
\* yielded, in that order, as its last events.
C1_EndsAfterTeardown ==
    genPc = "done" =>
        /\ stopCalls > 0
        /\ Len(yielded) >= 3
        /\ LET n == Len(yielded) IN
           /\ yielded[n - 2].type = "contentEnd" /\ yielded[n - 2].id > 0
           /\ yielded[n - 1].type = "promptEnd"
           /\ yielded[n].type = "sessionEnd"

\* C2: once stop() has been called (stop message or close), the session
\* eventually is Stopped and its generator has terminated, also when the
\* call came during the handshake.
C2_StopLeadsToStopped ==
    (stopCalls > 0) ~> (genPc = "done" /\ Stopped)

\* C3: the AudioInput events yielded so far carry, in order, the first
\* frames accepted by addAudioChunk: audio is never reordered.
C3_AudioFifo == IsPrefix(AudioContents(yielded), accepted)

C3_Witness ==
    /\ AudioContents(yielded) = <<"A", "B">>
    /\ \E j \in 1..Len(yielded) : yielded[j].type = "toolResult"

\* C4: a tool result pushed while the session is active precedes, in the
\* outbound sequence, every event that was in the audio queue at the moment
\* of the push.
C4_ToolResultFirst ==
    \A p \in priorityPairs :
        \A j \in 1..Len(yielded) :
            yielded[j].id = p[2] =>
                \E i \in 1..(j - 1) : yielded[i].id = p[1]

C4_Witness ==
    \E p \in priorityPairs :
        /\ Occurrences(yielded, p[1]) = 1
        /\ Occurrences(yielded, p[2]) = 1

\* C5: the second stop() call of a session leaves exactly one teardown
\* triple produced in total and changes neither the flags nor the queues.
C5_SecondStopIsNoOp ==
    [][ (stopCalls = 1 /\ stopCalls' = 2) =>
           /\ teardownCount' = 1
           /\ UNCHANGED <<isActive, sessionReady, audioQueue,
                          toolResultQueue>> ]_vars

\* C6: over the lifetime of a session at most one teardown triple is pushed,
\* however stop() calls interleave with the queue writers and the generator.
C6_AtMostOneTeardown == teardownCount <= 1

C6_Witness == stopCalls >= 2 /\ teardownCount = 1 /\ stopWaiting = 1

\* C7: every AudioInput in the outbound sequence comes after the audio
\* ContentStart.
C7_AudioAfterContentStart ==
    \A j \in 1..Len(yielded) :
        IsAudio(yielded[j]) =>
            \E i \in 1..(j - 1) : yielded[i] = AudioContentStart

C7_Witness == \E j \in 1..Len(yielded) : IsAudio(yielded[j])

\* C8: when the outbound sequence has ended, every event pushed before
\* stop() was first called and every event of the teardown triple has been
\* yielded exactly once.
C8_NothingLost ==
    genPc = "done" => \A i \in owed : Occurrences(yielded, i) = 1

\* C9: a TextOutput whose role is absent or that of the preceding
\* ContentStart causes exactly one onText call with its text when that
\* ContentStart has role ASSISTANT and stage FINAL, and no call when it has
\* role USER or role ASSISTANT with stage SPECULATIVE.
C9_TextFilter ==
    [][ ( /\ frames' = frames + 1
          /\ lastFrame'.key = "textOutput"
          /\ lastContentStart.key = "contentStart"
          /\ lastFrame'.role \in {"absent", lastContentStart.role} ) =>
           IF /\ lastContentStart.role = "ASSISTANT"
              /\ lastContentStart.fields # "SPECULATIVE"
              THEN calls' = Append(calls, <<"onText", lastFrame'.content>>)
              ELSE calls' = calls ]_vars

\* C10 as stated: only a ContentStart of type TEXT and role ASSISTANT
\* changes the recorded stage.
C10_StageOnlyTextAssistant ==
    [][ frames' = frames + 1 =>
           IF /\ lastFrame'.key = "contentStart"
              /\ lastFrame'.type = "TEXT"
              /\ lastFrame'.role = "ASSISTANT"
              THEN currentGenerationStage' =
                      IF lastFrame'.fields = "SPECULATIVE"
                         THEN "SPECULATIVE" ELSE "FINAL"
              ELSE currentGenerationStage' = currentGenerationStage ]_vars

\* C10 amended: every ContentStart, of any type and role, sets the recorded
\* stage to its stage tag, or to FINAL when the tag is absent; every other
\* frame leaves the recorded stage unchanged.
C10_StageOnlyContentStart ==
    [][ frames' = frames + 1 =>
           IF lastFrame'.key = "contentStart"
              THEN currentGenerationStage' =
                      IF lastFrame'.fields = "SPECULATIVE"
                         THEN "SPECULATIVE" ELSE "FINAL"
              ELSE currentGenerationStage' = currentGenerationStage ]_vars

C10_Witness ==
    /\ lastFrame.key = "textOutput"
    /\ lastContentStart.key = "contentStart"
    /\ lastContentStart.type = "AUDIO"
    /\ lastContentStart.fields = "SPECULATIVE"
    /\ currentGenerationStage = "SPECULATIVE"

\* C11: a pending onToolUse does not block the read loop: while the tool
\* call is awaited, a following AudioOutput, TextOutput or ContentEnd frame
\* can be processed.
C11_LoopNotBlockedByTool ==
    (clientPc = "awaitTool" /\ frames < MaxFrames) =>
        ENABLED (\E f \in Frames :
                    /\ f.key \in {"audioOutput", "textOutput", "contentEnd"}
                    /\ ProcessFrame(f))

\* C12: a knowledge lookup in flight does not hold the generator back: when
\* the active session has audio queued and the generator is suspended, its
\* next step is possible and yields the first queued event.
C12_GeneratorNotBlockedByLookup ==
    ( /\ lookup # <<>>
      /\ isActive
      /\ genPc \in {"yield", "sleep"}
      /\ toolResultQueue = <<>>
      /\ audioQueue # <<>> ) =>
        ENABLED ( /\ GenPull \/ GenWake
                  /\ yielded' = Append(yielded, Head(audioQueue)) )

C12_Witness ==
    /\ lookup # <<>>
    /\ \E j \in 1..Len(yielded) :
          IsAudio(yielded[j]) /\ yielded[j].id >= lookup[1].startedAt

\* C13: a transport fault of the duplex call makes the handler send one
\* {type:'error'} message to the client.
C13_FaultSendsOneError ==
    [][ faults' = faults + 1 => errorsSent' = errorsSent + 1 ]_vars

\* C14: after a transport fault the session eventually is Stopped and its
\* generator has terminated, unless the client itself sent stop or closed
\* the connection.
C14_FaultEndsSession ==
    (faults > 0) ~> ((genPc = "done" /\ Stopped) \/ stopCalls > 0)

\* C15: the close of the socket calls stop() exactly once, whether or not a
\* stop message came before, and stop() is not called after the close.
C15_CloseStopsOnce ==
    [][ /\ (wsOpen /\ ~wsOpen') => stopCalls' = stopCalls + 1
        /\ ~wsOpen => stopCalls' = stopCalls ]_vars

C15_Witness == ~wsOpen /\ stopMsgs >= 1 /\ stopCalls = stopMsgs + 1

\* C16: when the lookup of a query_documents call settles, exactly one tool
\* result with the toolUseId of the call is pushed, with status "error" if
\* and only if the lookup failed and with the excerpts if it found results,
\* and nothing is thrown.
C16_OneResultPerToolUse ==
    [][ (lookup # <<>> /\ lookup' = <<>>) =>
           /\ toolThrows' = toolThrows
           /\ Len(toolResultQueue') = Len(toolResultQueue) + 1
           /\ LET r == toolResultQueue'[Len(toolResultQueue')] IN
              /\ r.content = lastFrame.content
              /\ (r.status = "error") <=> (lookup[1].outcome = "throws")
              /\ lookup[1].outcome = "results" => r.text = "excerpts" ]_vars

\* C17: the lookup is bounded in time: a tool call whose lookup never
\* answers still leads to an error tool result with the toolUseId of the
\* call in the tool-result queue.
C17_ToolCallProducesResult ==
    (lookup # <<>> /\ lookup[1].outcome = "hangs") ~>
        (\E i \in 1..Len(toolResultQueue) :
            /\ toolResultQueue[i].content = lastFrame.content
            /\ toolResultQueue[i].status = "error")

\* C18: a query_documents call whose input has no string `query` ends with
\* a tool result of status "error", and leaves the session's flags alone.
C18_MalformedInputIsError ==
    [][ (lookup # <<>> /\ lookup' = <<>> /\ lookup[1].query = "") =>
           /\ Len(toolResultQueue') = Len(toolResultQueue) + 1
           /\ toolResultQueue'[Len(toolResultQueue')].status = "error"
           /\ UNCHANGED <<isActive, sessionReady>> ]_vars

\* C19: once stop() has completed, both queues are and stay empty.
C19_NoEventAfterStopped ==
    Stopped => (audioQueue = <<>> /\ toolResultQueue = <<>>)

\* C20: the lifecycle Idle(0), Starting(1), Active(2), Draining(3),
\* Stopped(4) advances one phase at a time and never goes back; a Stopped
\* session stays inactive and not ready, and nothing more is yielded.
Phase ==
    IF teardownCount > 0 THEN (IF stopWaiting > 0 THEN 3 ELSE 4)
    ELSE IF isActive THEN 2
    ELSE IF genPc = "start" THEN 0
    ELSE 1

C20_LifecycleForward ==
    [][ /\ Phase' \in {Phase, Phase + 1}
        /\ Phase = 4 => /\ Phase' = 4
                        /\ ~isActive' /\ ~sessionReady'
                        /\ yielded' = yielded ]_vars

C20_Witness == Phase = 4 /\ genPc = "done" /\ Len(yielded) > Len(HandshakeEvents)

\* ---------------------------------------------------------------------
ReceivedContents == [i \in 1..Len(received) |-> received[i].content]
TeardownTypes == {"contentEnd", "promptEnd", "sessionEnd"}
AudioStarts(seq) ==
    Cardinality({j \in 1..Len(seq) :
                    seq[j].type = "contentStart" /\ seq[j].content = "audio"})
AudioEnds(seq) ==
    Cardinality({j \in 1..Len(seq) :
                    seq[j].type = "contentEnd" /\ seq[j].content = "audio"})

\* C21: stop() on an active session clears the ready flag in the same step
\* and appends the audio contentEnd, promptEnd and sessionEnd, in that
\* order, as the last three entries of the audio queue; from then on no
\* frame is accepted and no audioInput is ever queued behind one of them.
C21_TeardownLastInQueue ==
    [][ /\ (isActive /\ stopCalls' = stopCalls + 1) =>
              /\ ~sessionReady'
              /\ audioQueue' = audioQueue \o
                     << [type |-> "contentEnd", content |-> "audio",
                         id |-> nextId],
                        [type |-> "promptEnd", content |-> "", id |-> nextId + 1],
                        [type |-> "sessionEnd", content |-> "",
                         id |-> nextId + 2] >>
        /\ teardownCount > 0 => accepted' = accepted
        /\ \A i, j \in 1..Len(audioQueue') :
              (i < j /\ audioQueue'[i].type \in TeardownTypes) =>
                  audioQueue'[j].type # "audioInput" ]_vars

C21_Witness ==
    /\ teardownCount = 1 /\ stopWaiting = 1
    /\ Len(audioQueue) >= 4
    /\ audioQueue[1].type = "audioInput"
    /\ \E i, j \in 1..Len(received) :
          i < j /\ received[i].queued /\ ~received[j].queued

\* C22: when startStream has returned, the whole initial handshake has been
\* handed to the consumer and the session has been made ready.
C22_ReturnsAfterHandshake == startReturned => audioContentStarted

\* C23: when no stop() has been called and the active session has drained
\* its audio queue, the audioInput events yielded are the frames of all the
\* audio messages the handler received since it sent {type:'ready'}, in the
\* order of their arrival.
C23_AudioSinceReadyDelivered ==
    (isActive /\ stopCalls = 0 /\ audioQueue = <<>>) =>
        AudioContents(yielded) = ReceivedContents

\* C24: the first six events yielded are sessionStart, promptStart, the
\* contentStart, textInput and contentEnd of the system prompt, and the
\* audio contentStart, in this order; the session is active or ready only
\* when all six have been yielded.
C24_HandshakeFirst ==
    LET first == << <<"sessionStart", "">>, <<"promptStart", "">>,
                    <<"contentStart", "system">>, <<"textInput", "system">>,
                    <<"contentEnd", "system">>, <<"contentStart", "audio">> >>
    IN /\ \A j \in 1..Len(yielded) :
             j <= 6 => <<yielded[j].type, yielded[j].content>> = first[j]
       /\ (isActive \/ sessionReady \/ teardownCount > 0) =>
              Len(yielded) >= 6

C24_Witness == isActive /\ Len(yielded) = 6 /\ genPc = "sleep"

\* C25: sessionReady is true only if the audio contentStart has been handed
\* to the consumer and audioContentStarted is true.
C25_ReadyOnlyAfterAudioStart ==
    sessionReady =>
        /\ audioContentStarted
        /\ \E j \in 1..Len(yielded) :
              yielded[j].type = "contentStart" /\ yielded[j].content = "audio"

C25_Witness ==
    /\ sessionReady
    /\ \E i \in 1..Len(received) : received[i].queued

\* C26: an audio message handled while the session is not ready changes
\* neither queue and no flag of the session, and no error is sent.
C26_AudioBeforeReadyDropped ==
    [][ (Len(received') = Len(received) + 1 /\ ~sessionReady) =>
           /\ UNCHANGED <<audioQueue, toolResultQueue, isActive, sessionReady,
                          audioContentStarted, accepted>>
           /\ UNCHANGED <<errorsSent, wsSent, genPc, yielded>> ]_vars

\* A frame dropped before the session was ready, and a later frame that was
\* queued and has been yielded.
C26_Witness ==
    \E i, j \in 1..Len(received) :
        /\ i < j /\ ~received[i].queued /\ received[j].queued
        /\ AudioContents(yielded) = <<received[j].content>>

\* C27: at most one audio contentStart is ever yielded, exactly one once the
\* handshake is over, and the audio contentStarts yielded exceed the audio
\* contentEnds yielded by at most one.
C27_OneAudioContent ==
    /\ AudioStarts(yielded) <= 1
    /\ audioContentStarted => AudioStarts(yielded) = 1
    /\ AudioStarts(yielded) - AudioEnds(yielded) \in {0, 1}

C27_Witness ==
    /\ genPc = "done"
    /\ AudioStarts(yielded) = 1
    /\ Len(AudioContents(yielded)) = 2

\* C28: a frame that does not decode or parse invokes no callback, sends no
\* message, reports no fault and leaves the loop reading.
C28_MalformedFrameSkipped ==
    [][ (frames' = frames + 1 /\ lastFrame'.key = "malformed") =>
           /\ calls' = calls
           /\ clientPc' = "reading"
           /\ UNCHANGED <<faults, errorsSent, wsSent, currentGenerationStage,
                          toolResultQueue>> ]_vars

\* A callback invoked for a frame that came after a skipped one.
C28_Witness ==
    /\ parseErrors >= 1
    /\ lastFrame.key = "audioOutput"
    /\ calls # <<>> /\ calls[Len(calls)][1] = "onAudioChunk"

\* C29: processing a completionEnd ends the loop without a callback, a fault
\* or an error message, and once the loop has ended this way no frame is
\* read and no callback is invoked.
C29_CompletionEndEndsLoop ==
    [][ /\ (frames' = frames + 1 /\ lastFrame'.key = "completionEnd") =>
              /\ clientPc' = "done"
              /\ calls' = calls
              /\ UNCHANGED <<faults, errorsSent, wsSent>>
        /\ (clientPc = "done" /\ lastFrame.key = "completionEnd") =>
              /\ clientPc' = "done"
              /\ UNCHANGED <<calls, frames, faults, toolThrows>> ]_vars

C29_Witness ==
    /\ clientPc = "done" /\ lastFrame.key = "completionEnd"
    /\ frames < MaxFrames /\ calls # <<>>

\* C30 as stated: every message sent to the client has one of the types
\* ready, audio, text, contentEnd, error.
C30_FiveMessageTypes ==
    wsSent \subseteq {"ready", "audio", "text", "contentEnd", "error"}

\* C30 amended: every message sent to the client has one of the types
\* ready, audio, text, contentEnd, error, stopped, and stopped is sent only
\* in answer to a stop message.
C30_SixMessageTypes ==
    /\ wsSent \subseteq
          {"ready", "audio", "text", "contentEnd", "error", "stopped"}
    /\ "stopped" \in wsSent => stopMsgs > 0

C30_Witness ==
    wsSent = {"ready", "audio", "text", "contentEnd", "error", "stopped"}

\* C31: a tool result computed for a toolUse of the first session's response
\* stream is never pushed into the queue of another session, also when the
\* connection has received a second start message in the meantime.
C31_ToolResultStaysInSession == second.toolResults = <<>>

\* C36: no message is passed to the socket after it has closed.
C36_NoSendAfterClose == sendsAfterClose = {}

\* C37: once the connection has closed, stop() has been called on every
\* session a start message created on it.
C37_CloseStopsEverySession ==
    ~wsOpen =>
        /\ stopCalls > 0
        /\ second.live => second.stopCalls > 0

\* C35: while the session is not stopped and the generator is scheduled
\* fairly, every audio frame accepted and every tool result pushed is
\* eventually yielded, exactly once; a generator step of the active session
\* that finds both queues empty yields nothing and goes to its wait.
C35_QueuedEventuallyYielded ==
    /\ \A i \in 1..(MaxAudio + MaxTool) :
          (i \in owed) ~> (Occurrences(yielded, i) = 1)
    /\ [][ ( /\ isActive
             /\ toolResultQueue = <<>> /\ audioQueue = <<>>
             /\ genPc' # genPc ) =>
               (yielded' = yielded /\ genPc' = "sleep") ]_vars

C35_Witness ==
    /\ isActive /\ stopCalls = 0 /\ genPc = "sleep"
    /\ Cardinality(owed) = MaxAudio + MaxTool
    /\ \A i \in owed : Occurrences(yielded, i) = 1
    /\ \E j \in 1..Len(yielded) : yielded[j].type = "toolResult"

\* C32: every event the generator has yielded, and every queued event it
\* would yield, written to the wire envelope and read back, is the original
\* event, and its envelope has exactly one event name.
EmittedEvents ==
    {yielded[j] : j \in 1..Len(yielded)}
        \cup {audioQueue[j] : j \in 1..Len(audioQueue)}
        \cup {toolResultQueue[j] : j \in 1..Len(toolResultQueue)}

C32_RoundTrip ==
    \A e \in EmittedEvents :
        /\ Cardinality(Encode(e).names) = 1
        /\ Decode(Encode(e)) = e

C32_Witness ==
    /\ \E j \in 1..Len(yielded) :
          yielded[j].type = "toolResult" /\ yielded[j].status = "absent"
    /\ \E j \in 1..Len(yielded) : yielded[j].type = "audioInput"
    /\ \E j \in 1..Len(audioQueue) : audioQueue[j].type = "sessionEnd"

\* C33: the status of a document never moves back along
\* uploading, parsing, parsed, ingesting, ready/failed, and ready and failed
\* are never left, retries of the same message included.
StatusRank(status) ==
    CASE status = "uploading" -> 0
      [] status = "parsing" -> 1
      [] status = "parsed" -> 2
      [] status = "ingesting" -> 3
      [] OTHER -> 4

C33_StatusOnlyForward ==
    [][ \A m \in Msgs :
          /\ StatusRank(docStatus'[m]) >= StatusRank(docStatus[m])
          /\ docStatus[m] \in {"ready", "failed"} =>
                docStatus'[m] = docStatus[m] ]_vars

\* C34: the worker starts a delete only for a message whose body does not
\* parse or whose withRetry call has returned, and a message leaves the
\* queue only so; when withRetry has thrown, the message is visible again.
C34_DeleteOnlyAfterSuccess ==
    /\ workerPc = "deleteInvalid" => msgKind[current] = "invalid"
    /\ workerPc = "delete" =>
          (msgKind[current] = "valid" /\ retryResult = "returned")
    /\ \A m \in Msgs :
          msgState[m] = "deleted" /\ msgKind[m] = "valid" /\ current = m =>
            retryResult = "returned"
    /\ (workerPc = "poll" /\ msgKind[current] = "valid"
          /\ retryResult = "threw") => msgState[current] = "visible"

C34_Witness ==
    /\ msgState[current] = "deleted" /\ msgKind[current] = "valid"
    /\ retryResult = "returned" /\ failedAttempts > 0
    /\ \E m \in Msgs : msgKind[m] = "invalid" /\ msgState[m] = "deleted"

\* C38: withRetry calls the wrapped function at most retries + 1 times; it
\* returns at the first call that succeeds, so every call before failed;
\* and it throws only after retries + 1 failed calls, the error thrown
\* being that of the last call.
C38_WithRetryBound ==
    /\ invocations <= MAX_RETRIES + 1
    /\ retryResult = "returned" => invocations = failedAttempts + 1
    /\ retryResult = "threw" =>
          /\ invocations = MAX_RETRIES + 1
          /\ failedAttempts = invocations
          /\ thrown = invocations - 1

C38_Witness ==
    /\ retryResult = "threw" /\ invocations = MAX_RETRIES + 1
    /\ receives[current] = 2

====
